---- MODULE Spec2Model ----
(***************************************************************************)
(* Model of the scaphandre qemu recording agent:                           *)
(*   - TestCase, the recording accumulator        (src/exporters/qemu.rs)  *)
(*   - QemuExporter::run / iteration, the sampler (src/exporters/qemu.rs)  *)
(*   - run, the control protocol driver           (src/lib.rs)             *)
(*                                                                         *)
(* f64 values are modelled as non-negative rationals plus the two special  *)
(* values +infinity and NaN (IEEE-754 rules for the special values; the    *)
(* rounding of finite values is not modelled).  Strings that the code      *)
(* parses are sequences of one-character strings.                          *)
(***************************************************************************)
EXTENDS Integers, Sequences, FiniteSets, TLC

VARIABLES
    pc,         \* position of the single driver thread
    cfg,        \* index of the configuration the for loop of run() is at
    sock,       \* lines the peer has sent, not yet read from the socket
    peer,       \* [sent, closed]: what the peer has done so far
    out,        \* tokens written to the stream by the driver
    tc,         \* the TestCase of the window in progress, or NoTestCase
    ticks,      \* iteration() calls made in the window in progress
    topology,   \* what the last Topology::refresh() left in self.topology
    now,        \* the wall clock, in seconds since the epoch
    fs,         \* files under the storage root: path -> content
    budget,     \* refreshes that may still deliver an energy delta
    thermal,    \* the tree under /sys/class/thermal of this host
    ret,        \* result of the last TestCase method called directly
    read_line,  \* the line read_line() returned last
    received,   \* history: how many lines the driver has read
    log         \* history: what the driver did since it read that line

vars == <<pc, cfg, sock, peer, out, tc, ticks, topology, now, fs, budget, thermal, ret, read_line, received, log>>

(***************************************************************************)
(* Bounds of the model.                                                    *)
(***************************************************************************)
MaxLines == 2       \* lines the peer sends on the connection
MaxData == 1        \* refreshes in which the sensor delivers an energy delta
MaxCalls == 3       \* appends made through the TestCase methods directly
MaxTokens == 2      \* tokens of a command line given to get_vm_name_from_cmdline

(***************************************************************************)
(* f64                                                                     *)
(***************************************************************************)
RECURSIVE Gcd(_, _)
Gcd(a, b) == IF b = 0 THEN a ELSE Gcd(b, a % b)

Fin(n, d) ==
    IF n = 0 THEN [k |-> "fin", n |-> 0, d |-> 1]
    ELSE [k |-> "fin", n |-> n \div Gcd(n, d), d |-> d \div Gcd(n, d)]

NaN == [k |-> "nan", n |-> 0, d |-> 0]

Inf == [k |-> "inf", n |-> 1, d |-> 0]

\* `x as f64` for an unsigned integer x
AsF64(x) == Fin(x, 1)

IsFinite(v) == v.k = "fin"

IsZero(v) == v.k = "fin" /\ v.n = 0

\* a + b
FAdd(a, b) ==
    IF a.k = "nan" \/ b.k = "nan" THEN NaN
    ELSE IF a.k = "inf" \/ b.k = "inf" THEN Inf
    ELSE Fin(a.n * b.d + b.n * a.d, a.d * b.d)

\* a * b
FMul(a, b) ==
    IF a.k = "nan" \/ b.k = "nan" THEN NaN
    ELSE IF a.k = "inf" \/ b.k = "inf"
         THEN (IF IsZero(a) \/ IsZero(b) THEN NaN ELSE Inf)
    ELSE Fin(a.n * b.n, a.d * b.d)

\* a / b
FDiv(a, b) ==
    IF a.k = "nan" \/ b.k = "nan" THEN NaN
    ELSE IF a.k = "inf" THEN (IF b.k = "inf" THEN NaN ELSE Inf)
    ELSE IF b.k = "inf" THEN Fin(0, 1)
    ELSE IF IsZero(b) THEN (IF IsZero(a) THEN NaN ELSE Inf)
    ELSE Fin(a.n * b.d, a.d * b.n)

\* the sum loops of get_avg_temp and get_watt_consumed_by_vm: 0.0 + s[1] + ...
RECURSIVE SumF(_)
SumF(s) == IF s = <<>> THEN Fin(0, 1)
           ELSE FAdd(SumF(SubSeq(s, 1, Len(s) - 1)), s[Len(s)])

\* f64::to_string: the decimal text of a finite value, "inf" or "NaN"
to_string(v) ==
    IF v.k = "nan" THEN [text |-> "NaN", n |-> 0, d |-> 0]
    ELSE IF v.k = "inf" THEN [text |-> "inf", n |-> 0, d |-> 0]
    ELSE [text |-> "decimal", n |-> v.n, d |-> v.d]

(***************************************************************************)
(* TestCase                                                                *)
(***************************************************************************)
NoTestCase == [none |-> TRUE]

\* the outcome of a call that may panic: a value, or the panic
Ok(v) == [ok |-> TRUE, v |-> v]

Panic == [ok |-> FALSE, v |-> 0]

EmptyMap == [x \in {} |-> <<>>]

\* TestCase::new, were temps to start with a sample in it
TestCase_new_with_sample(test_case_name, store_base_path) ==
    [test_name |-> test_case_name,
     vms |-> EmptyMap,
     temps |-> <<AsF64(0)>>,
     start_recording |-> 0,
     end_recording |-> 0,
     store_base_path |-> store_base_path]

TestCase_new(test_case_name, store_base_path) ==
    [test_name |-> test_case_name,
     vms |-> EmptyMap,
     temps |-> <<>>,
     start_recording |-> 0,
     end_recording |-> 0,
     store_base_path |-> store_base_path]

start_recording(t, time) == [t EXCEPT !.start_recording = time]

\* stop_recording, were the time stored in the field of start_recording
stop_recording_sets_start(t, time) == [t EXCEPT !.start_recording = time]

stop_recording(t, time) == [t EXCEPT !.end_recording = time]

add_temp_measurement(t, temperature) ==
    [t EXCEPT !.temps = Append(@, temperature)]

add_energy(t, vm_name, uj) ==
    IF vm_name \in DOMAIN t.vms
    THEN [t EXCEPT !.vms[vm_name] = Append(@, uj)]
    ELSE [t EXCEPT !.vms = @ @@ (vm_name :> <<uj>>)]

get_avg_temp(t) == FDiv(SumF(t.temps), AsF64(Len(t.temps)))

\* Duration - Duration panics when the result would be negative
get_test_duration(t) ==
    IF t.end_recording >= t.start_recording
    THEN Ok(t.end_recording - t.start_recording)
    ELSE Panic

\* get_watt_consumed_by_vm, were the sum divided by the number of entries
get_watt_consumed_by_vm_mean(t, vm_name) ==
    IF vm_name \notin DOMAIN t.vms THEN Panic
    ELSE IF ~get_test_duration(t).ok THEN Panic
    ELSE Ok(FDiv(SumF(t.vms[vm_name]), AsF64(Len(t.vms[vm_name]))))

\* vms.get(&vm_name).unwrap() panics for a name that has no series
get_watt_consumed_by_vm(t, vm_name) ==
    IF vm_name \notin DOMAIN t.vms THEN Panic
    ELSE IF ~get_test_duration(t).ok THEN Panic
    ELSE Ok(FDiv(SumF(t.vms[vm_name]), AsF64(get_test_duration(t).v)))

(***************************************************************************)
(* Strings the code takes apart                                            *)
(***************************************************************************)
starts_with(s, p) == Len(s) >= Len(p) /\ SubSeq(s, 1, Len(p)) = p

contains(s, p) ==
    \E i \in 1..(Len(s) - Len(p) + 1) : SubSeq(s, i, i + Len(p) - 1) = p

\* s.split(c).next(): s up to the first c
RECURSIVE first_piece(_, _)
first_piece(s, c) ==
    IF s = <<>> \/ Head(s) = c THEN <<>>
    ELSE <<Head(s)>> \o first_piece(Tail(s), c)

Digits == [c \in {"0", "1", "2", "3", "4", "5", "6", "7", "8", "9"} |->
            CASE c = "0" -> 0 [] c = "1" -> 1 [] c = "2" -> 2 [] c = "3" -> 3
              [] c = "4" -> 4 [] c = "5" -> 5 [] c = "6" -> 6 [] c = "7" -> 7
              [] c = "8" -> 8 [] c = "9" -> 9]

RECURSIVE DecimalValue(_)
DecimalValue(s) ==
    IF s = <<>> THEN 0
    ELSE 10 * DecimalValue(SubSeq(s, 1, Len(s) - 1)) + Digits[s[Len(s)]]

\* str::parse::<f64>() of an unsigned decimal text; anything else is an Err
parse_f64(s) ==
    IF s # <<>> /\ \A i \in 1..Len(s) : s[i] \in DOMAIN Digits
    THEN Ok(AsF64(DecimalValue(s)))
    ELSE Panic

GuestEq == <<"g", "u", "e", "s", "t", "=">>

QemuSystem == <<"q", "e", "m", "u", "-", "s", "y", "s", "t", "e", "m">>

RECURSIVE get_vm_name_from_cmdline(_)
get_vm_name_from_cmdline(cmdline) ==
    IF cmdline = <<>> THEN <<>>
    ELSE IF starts_with(Head(cmdline), GuestEq)
         THEN first_piece(
                first_piece(SubSeq(Head(cmdline), Len(GuestEq) + 1,
                                   Len(Head(cmdline))), "="),
                ",")
    ELSE get_vm_name_from_cmdline(Tail(cmdline))

(***************************************************************************)
(* QemuExporter: one sampling tick                                         *)
(*                                                                         *)
(* A topology is what Topology::refresh() leaves behind:                   *)
(*   uj    the result of get_records_diff(): None, or the text of the      *)
(*         energy delta in microjoules                                     *)
(*   stat  the result of get_stats_diff(): None, or the host jiffies delta *)
(*   procs the alive processes, each a history of ProcessRecords, newest   *)
(*         first; a record holds the total jiffies, the command line, and  *)
(*         whether the first and the second read of the command line       *)
(*         succeed                                                         *)
(***************************************************************************)
None(empty) == [some |-> FALSE, v |-> empty]

Some(v) == [some |-> TRUE, v |-> v]

RECURSIVE filter_qemu_vm_processes(_)
filter_qemu_vm_processes(processes) ==
    IF processes = <<>> THEN <<>>
    ELSE LET vecp == Head(processes)
             rest == filter_qemu_vm_processes(Tail(processes))
         IN  IF /\ vecp # <<>>
                /\ vecp[1].cmdline_ok
                /\ \E i \in 1..Len(vecp[1].cmdline) :
                      contains(vecp[1].cmdline[i], QemuSystem)
             THEN <<vecp>> \o rest
             ELSE rest

\* energy_share, were the ratio taken the wrong way round
energy_share_inverted(time_pdiff, tdiff, uj) ==
    FMul(FDiv(AsF64(tdiff), AsF64(time_pdiff)), uj)

\* ratio * uj for one process, lines 194 and 207-212
energy_share(time_pdiff, tdiff, uj) ==
    FMul(FDiv(AsF64(time_pdiff), AsF64(tdiff)), uj)

\* the length a history needs to be attributed, line 189
long_enough(qp) == Len(qp) > 2

\* the body of `for qp in qemu_processes`, lines 188-219
RECURSIVE attribute(_, _, _, _)
attribute(t, qemu_processes, uj_text, topo_stat_diff) ==
    IF qemu_processes = <<>> THEN Ok(t)
    ELSE LET qp == Head(qemu_processes)
             last == qp[1]
             previous == qp[2]
         IN  IF ~long_enough(qp)
             THEN attribute(t, Tail(qemu_processes), uj_text, topo_stat_diff)
             ELSE IF ~last.cmdline_ok_again THEN Panic
             ELSE IF ~topo_stat_diff.some
             THEN attribute(t, Tail(qemu_processes), uj_text, topo_stat_diff)
             ELSE IF ~parse_f64(uj_text).ok THEN Panic
             ELSE attribute(
                    add_energy(t, get_vm_name_from_cmdline(last.cmdline),
                               energy_share(last.jiffies - previous.jiffies,
                                            topo_stat_diff.v,
                                            parse_f64(uj_text).v)),
                    Tail(qemu_processes), uj_text, topo_stat_diff)

(***************************************************************************)
(* read_temp.  A thermal tree is None when /sys/class/thermal cannot be    *)
(* listed, else its entries: [cooling, readable, text].                    *)
(***************************************************************************)
\* the loop over the entries: <<temp, count>>, or a panic
RECURSIVE read_zones(_)
read_zones(sensors) ==
    IF sensors = <<>> THEN Ok(<<AsF64(0), 0>>)
    ELSE LET sensor == sensors[Len(sensors)]
             before == read_zones(SubSeq(sensors, 1, Len(sensors) - 1))
             text == sensor.text
         IN  IF ~before.ok THEN Panic
             ELSE IF sensor.cooling \/ ~sensor.readable THEN before
             ELSE IF text = <<>> \/ text[Len(text)] # "\n" THEN Panic
             ELSE IF ~parse_f64(SubSeq(text, 1, Len(text) - 1)).ok THEN Panic
             ELSE Ok(<<FAdd(before.v[1],
                            parse_f64(SubSeq(text, 1, Len(text) - 1)).v),
                       before.v[2] + 1>>)

read_temp(thermal_tree) ==
    IF ~thermal_tree.some THEN Ok(AsF64(0))
    ELSE IF ~read_zones(thermal_tree.v).ok THEN Panic
    ELSE Ok(FDiv(read_zones(thermal_tree.v).v[1],
                 AsF64(read_zones(thermal_tree.v).v[2])))

\* whether the tick reaches add_temp_measurement, line 178
samples_temperature(topo) == topo.uj.some

\* iteration(), were add_temp_measurement left out
iteration_without_temperature(t, topo, thermal_tree) ==
    IF ~samples_temperature(topo) THEN Ok(t)
    ELSE attribute(t, filter_qemu_vm_processes(topo.procs), topo.uj.v, topo.stat)

\* iteration(), lines 172-222, after refresh() has produced topo
iteration(t, topo, thermal_tree) ==
    IF ~samples_temperature(topo) THEN Ok(t)
    ELSE LET r == attribute(t, filter_qemu_vm_processes(topo.procs),
                            topo.uj.v, topo.stat)
         IN  IF ~r.ok THEN Panic
             ELSE IF ~read_temp(thermal_tree).ok THEN Panic
             ELSE Ok(add_temp_measurement(r.v, read_temp(thermal_tree).v))

(***************************************************************************)
(* Persistence                                                             *)
(***************************************************************************)
\* add_or_create_file_with_value, were the value added to the number the file
\* holds, as add_or_create_energy_file does
add_or_create_file_with_value_adding(files, path, file_name, value, io_ok) ==
    IF ~io_ok THEN [ok |-> FALSE, v |-> files]
    ELSE IF <<path, file_name>> \in DOMAIN files
            /\ files[<<path, file_name>>].text = "decimal"
    THEN [ok |-> TRUE,
          v |-> (<<path, file_name>> :>
                    to_string(FAdd(Fin(files[<<path, file_name>>].n,
                                       files[<<path, file_name>>].d), value)))
                @@ files]
    ELSE [ok |-> TRUE, v |-> (<<path, file_name>> :> to_string(value)) @@ files]

\* add_or_create_file_with_value: path/file_name is overwritten with the text
\* of value, or the call panics when the directory or the file cannot be written
add_or_create_file_with_value(files, path, file_name, value, io_ok) ==
    IF io_ok
    THEN [ok |-> TRUE, v |-> (<<path, file_name>> :> to_string(value)) @@ files]
    ELSE [ok |-> FALSE, v |-> files]

\* store_test_data over the vms in the order the map yields them; the first
\* `good` writes succeed.  The result holds the files as the call leaves them.
RECURSIVE store_test_data(_, _, _, _)
store_test_data(t, files, order, good) ==
    IF order = <<>> THEN [ok |-> TRUE, v |-> files]
    ELSE LET vm == Head(order)
             dir == <<t.store_base_path, vm>>
             watt == get_watt_consumed_by_vm(t, vm)
             first == add_or_create_file_with_value(
                         files, dir, "consumed_watt", watt.v, good >= 1)
             second == add_or_create_file_with_value(
                         first.v, dir, "avg_temp", get_avg_temp(t), good >= 2)
         IN  IF ~watt.ok THEN [ok |-> FALSE, v |-> files]
             ELSE IF ~first.ok THEN first
             ELSE IF ~second.ok THEN second
             ELSE store_test_data(t, second.v, Tail(order), good - 2)

\* the orders in which a HashMap with these keys can be iterated
Orders(keys) ==
    {o \in [1..Cardinality(keys) -> keys] :
        \A i, j \in 1..Cardinality(keys) : o[i] = o[j] => i = j}

(***************************************************************************)
(* What the sensor, the process tracker, /sys/class/thermal and the peer   *)
(* can deliver                                                             *)
(***************************************************************************)
QemuBin == <<"q", "e", "m", "u", "-", "s", "y", "s", "t", "e", "m", "-",
             "x", "8", "6">>

DashName == <<"-", "n", "a", "m", "e">>

CmdMyvm == <<QemuBin, DashName,
             <<"g", "u", "e", "s", "t", "=", "m", "y", "v", "m", ",", "d", "e",
               "b", "u", "g", "-", "t", "h", "r", "e", "a", "d", "s", "=", "o",
               "n">> >>

CmdVmB == <<QemuBin, DashName, <<"g", "u", "e", "s", "t", "=", "v", "m", "B">> >>

CmdNoGuest == <<QemuBin>>

CmdBash == <<<<"b", "a", "s", "h">> >>

\* a history of `len` records whose newest is `pdiff` jiffies above the others
History(cmdline, len, pdiff, ok_again) ==
    [i \in 1..len |->
        [jiffies |-> IF i = 1 THEN 1000 + pdiff ELSE 1000,
         cmdline |-> cmdline,
         cmdline_ok |-> TRUE,
         cmdline_ok_again |-> ok_again]]

ProcessLists ==
    { <<History(CmdMyvm, 3, 30, TRUE), History(CmdVmB, 4, 70, TRUE)>>,
      <<History(CmdNoGuest, 3, 0, TRUE), History(CmdNoGuest, 3, 70, TRUE),
        History(CmdNoGuest, 3, 70, TRUE)>>,
      <<History(CmdMyvm, 2, 30, TRUE), History(CmdBash, 3, 30, TRUE),
        History(CmdVmB, 1, 0, TRUE)>>,
      <<History(CmdMyvm, 3, 30, FALSE)>> }

UjTexts == { <<"1", "0", "0", "0", "0", "0">>, <<"x">> }

StatDiffs == { None(0), Some(0), Some(100) }

\* refreshes after which get_records_diff() is None
AbsentTopologies ==
    { [uj |-> None(<<>>), stat |-> None(0), procs |-> <<>>],
      [uj |-> None(<<>>), stat |-> Some(100),
       procs |-> <<History(CmdMyvm, 3, 30, TRUE), History(CmdVmB, 4, 70, TRUE)>>] }

\* refreshes after which get_records_diff() is Some
PresentTopologies ==
    { [uj |-> Some(u), stat |-> s, procs |-> p] :
        u \in UjTexts, s \in StatDiffs, p \in ProcessLists }

Zone(text) == [cooling |-> FALSE, readable |-> TRUE, text |-> text]

CoolingDevice == [cooling |-> TRUE, readable |-> FALSE, text |-> <<>>]

Thermals ==
    { None(<<>>),
      Some(<<CoolingDevice>>),
      Some(<<Zone(<<"4", "0", "0", "0", "0", "\n">>), CoolingDevice>>) }

PeerLines == { "startTestReq\n", "finished recording\n", "stop\n" }

(***************************************************************************)
(* run() of lib.rs and QemuExporter::run: the control protocol driver      *)
(***************************************************************************)
Configurations == <<"small">>

StorageRoot == "/var/lib/libvirt/mount/scaphandre"

cleaner_step == 10

sleep_time == 1

Init ==
    /\ pc = "accept"
    /\ cfg = 1
    /\ sock = <<>>
    /\ peer = [sent |-> 0, closed |-> FALSE]
    /\ out = <<>>
    /\ tc = NoTestCase
    /\ ticks = 0
    /\ topology = [uj |-> None(<<>>), stat |-> None(0), procs |-> <<>>]
    /\ now = 0
    /\ fs = EmptyMap
    /\ budget = MaxData
    /\ thermal \in Thermals
    /\ ret = [op |-> "none", arg |-> <<>>, ok |-> TRUE, v |-> NaN]
    /\ read_line = ""
    /\ received = 0
    /\ log = <<>>

\* The peer writes a line.  The driver looks at the socket only in ReadLine,
\* so a line written while a window is recorded is the same as one written
\* just before the next read: the peer acts while the driver waits.
PeerSend ==
    /\ pc \in {"accept", "read"}
    /\ ~peer.closed
    /\ peer.sent < MaxLines
    /\ \E line \in PeerLines : sock' = Append(sock, line)
    /\ peer' = [peer EXCEPT !.sent = @ + 1]
    /\ UNCHANGED <<pc, cfg, out, tc, ticks, topology, now, fs, budget, thermal, ret, read_line, received, log>>

PeerClose ==
    /\ pc \in {"accept", "read"}
    /\ ~peer.closed
    /\ peer' = [peer EXCEPT !.closed = TRUE]
    /\ UNCHANGED <<pc, cfg, sock, out, tc, ticks, topology, now, fs, budget, thermal, ret, read_line, received, log>>

\* the stream of line 92 exists from accept() to the end of the loop body
ConnectionOpen == pc \notin {"accept", "closed", "panicked"}

\* listener.accept() at the top of the for loop
Accept ==
    /\ pc = "accept"
    /\ pc' = "read"
    /\ UNCHANGED <<cfg, sock, peer, out, tc, ticks, topology, now, fs, budget, thermal, ret, read_line, received, log>>

\* dispatch, were `ack` not written before the window is recorded
dispatch_without_ack(line, configuration) ==
    IF line = "finished recording\n"
    THEN (IF configuration < Len(Configurations) THEN "accept" ELSE "closed")
    ELSE IF line = "startTestReq\n" THEN "start"
    ELSE "panicked"

\* dispatch, were `finished recording` to leave the loop waiting for a line
dispatch_finished_keeps_reading(line, configuration) ==
    IF line = "finished recording\n" THEN "read"
    ELSE IF line = "startTestReq\n" THEN "ack"
    ELSE "panicked"

\* dispatch, were an unknown line skipped
dispatch_skips_unknown(line, configuration) ==
    IF line = "finished recording\n"
    THEN (IF configuration < Len(Configurations) THEN "accept" ELSE "closed")
    ELSE IF line = "startTestReq\n" THEN "ack"
    ELSE "read"

\* where the driver goes on a line, lines 101-117
dispatch(line, configuration) ==
    IF line = "finished recording\n"
    THEN (IF configuration < Len(Configurations) THEN "accept" ELSE "closed")
    ELSE IF line = "startTestReq\n" THEN "ack"
    ELSE "panicked"

\* BufReader::new(&mut stream) and read_line, lines 96-98: a fresh BufReader
\* takes what the socket holds, read_line returns its first line, and the
\* rest goes with the BufReader when it is dropped.  At end of stream the
\* line is empty.
ReadLine ==
    /\ pc = "read"
    /\ sock # <<>> \/ peer.closed
    /\ read_line' = IF sock # <<>> THEN Head(sock) ELSE ""
    /\ pc' = dispatch(read_line', cfg)
    /\ cfg' = IF read_line' = "finished recording\n" THEN cfg + 1 ELSE cfg
    /\ sock' = <<>>
    /\ received' = received + 1
    /\ log' = <<>>
    /\ UNCHANGED <<peer, out, tc, ticks, topology, now, fs, budget, thermal, ret>>

\* stream.write(b"ack\n"), lines 107-108
SendAck ==
    /\ pc = "ack"
    /\ out' = Append(out, "ack\n")
    /\ pc' = "start"
    /\ UNCHANGED <<cfg, sock, peer, tc, ticks, topology, now, fs, budget, thermal, ret, read_line, received>>
    /\ log' = Append(log, "ack")

\* TestCase::new and start_recording, lines 130-139
StartRecording ==
    /\ pc = "start"
    /\ tc' = start_recording(
                TestCase_new(Configurations[cfg], <<StorageRoot, Configurations[cfg]>>),
                now)
    /\ ticks' = 0
    /\ pc' = "tick"
    /\ UNCHANGED <<cfg, sock, peer, out, topology, now, fs, budget, thermal, ret, read_line, received>>
    /\ log' = Append(log, "start_recording")

\* ticks_per_window, were the iteration after the loop left out
ticks_per_window_loop_only == cleaner_step + 1

\* the ticks of a window: cleaner_step + 1 in the loop, and one after it
ticks_per_window == cleaner_step + 2

\* one iteration() and, inside the for loop, the sleep after it, lines 140-144
Tick ==
    /\ pc = "tick"
    /\ \E topo \in AbsentTopologies \cup PresentTopologies :
          /\ topo.uj.some => budget > 0
          /\ budget' = IF topo.uj.some THEN budget - 1 ELSE budget
          /\ topology' = topo
          /\ LET r == iteration(tc, topo, thermal)
             IN  IF ~r.ok
                 THEN /\ pc' = "panicked"
                      /\ tc' = NoTestCase
                      /\ UNCHANGED <<ticks, now>>
                 ELSE /\ tc' = r.v
                      /\ ticks' = ticks + 1
                      /\ now' = IF ticks < cleaner_step + 1 THEN now + sleep_time ELSE now
                      /\ pc' = IF ticks + 1 < ticks_per_window THEN "tick" ELSE "stop"
    /\ UNCHANGED <<cfg, sock, peer, out, fs, thermal, ret, read_line, received>>
    /\ log' = IF pc' = "panicked" THEN log ELSE Append(log, "tick")

\* test_case.stop_recording(), line 145
StopRecording ==
    /\ pc = "stop"
    /\ tc' = stop_recording(tc, now)
    /\ pc' = "store"
    /\ UNCHANGED <<cfg, sock, peer, out, ticks, topology, now, fs, budget, thermal, ret, read_line, received>>
    /\ log' = Append(log, "stop_recording")

\* test_case.store_test_data() and the return of QemuExporter::run, lines
\* 149-154.  The TestCase is gone after it, by the return or by the panic.
StoreTestData ==
    /\ pc = "store"
    /\ \E order \in Orders(DOMAIN tc.vms), good \in 0..(2 * Cardinality(DOMAIN tc.vms)) :
          LET r == store_test_data(tc, fs, order, good)
          IN  /\ fs' = r.v
              /\ pc' = IF r.ok /\ good = 2 * Cardinality(DOMAIN tc.vms)
                       THEN "fin" ELSE "panicked"
              /\ tc' = NoTestCase
    /\ UNCHANGED <<cfg, sock, peer, out, ticks, topology, now, budget, thermal, ret, read_line, received>>
    /\ log' = IF pc' = "panicked" THEN log ELSE Append(log, "persist")

\* stream.write(b"fin\n"), lines 113-114, and back to the top of the loop
SendFin ==
    /\ pc = "fin"
    /\ out' = Append(out, "fin\n")
    /\ pc' = "read"
    /\ UNCHANGED <<cfg, sock, peer, tc, ticks, topology, now, fs, budget, thermal, ret, read_line, received>>
    /\ log' = Append(log, "fin")

Next ==
    \/ PeerSend
    \/ PeerClose
    \/ Accept
    \/ ReadLine
    \/ SendAck
    \/ StartRecording
    \/ Tick
    \/ StopRecording
    \/ StoreTestData
    \/ SendFin

Spec == Init /\ [][Next]_vars

\* the statements of the driver from the ack to the fin of a window
WindowStep ==
    \/ SendAck
    \/ StartRecording
    \/ Tick
    \/ StopRecording
    \/ StoreTestData
    \/ SendFin

\* where the driver is between reading startTestReq and writing fin
WindowPcs == {"ack", "start", "tick", "stop", "store", "fin"}

\* a statement of the window can be executed exactly when the driver is in
\* the window: none of them waits for anything
WindowStepEnabled == (ENABLED <<WindowStep>>_vars) <=> (pc \in WindowPcs)

\* The driver is one thread that runs on: a call that returns is followed by
\* the next statement.  Reading a line is not among these steps, it waits
\* for the peer.  This is WF_vars(WindowStep), with ENABLED <<WindowStep>>_vars
\* written as the state predicate WindowStepEnabled shows it to be.
LiveSpec ==
    /\ Init
    /\ [][Next]_vars
    /\ ([]<>(pc \notin WindowPcs) \/ []<><<WindowStep>>_vars)

(***************************************************************************)
(* The TestCase methods called directly, in any order: TestCase and its    *)
(* methods are pub.  ret holds the method called last, its argument and    *)
(* what it returned, until the TestCase is changed; a panic ends the       *)
(* process.  The clock may be set between two readings.  log holds the     *)
(* calls of store_test_data that returned since the TestCase was changed   *)
(* last (the first two of them).                                           *)
(***************************************************************************)
ClockValues == {0, 10}

ApiNames == { <<>>, <<"v", "m", "B">> }

ApiEnergies == { AsF64(30000), AsF64(70000) }

ApiTemps == { AsF64(40), AsF64(50) }

Returned(op, arg, r) ==
    [op |-> op, arg |-> arg, ok |-> r.ok, v |-> IF r.ok THEN r.v ELSE NaN]

RECURSIVE Appended(_, _)
Appended(t, names) ==
    IF names = {} THEN Len(t.temps)
    ELSE LET n == CHOOSE x \in names : TRUE
         IN  Len(t.vms[n]) + Appended(t, names \ {n})

AccInit ==
    /\ pc = "api"
    /\ cfg = 1
    /\ sock = <<>>
    /\ peer = [sent |-> 0, closed |-> FALSE]
    /\ out = <<>>
    /\ tc = TestCase_new(Configurations[1], <<StorageRoot, Configurations[1]>>)
    /\ ticks = 0
    /\ topology = [uj |-> None(<<>>), stat |-> None(0), procs |-> <<>>]
    /\ now = 0
    /\ fs = EmptyMap
    /\ budget = 0
    /\ thermal = None(<<>>)
    /\ ret = Returned("none", <<>>, Ok(NaN))
    /\ read_line = ""
    /\ received = 0
    /\ log = <<>>

ApiStartRecording ==
    /\ pc = "api"
    /\ \E time \in ClockValues : tc' = start_recording(tc, time)
    /\ ret' = Returned("none", <<>>, Ok(NaN))
    /\ UNCHANGED <<pc, cfg, sock, peer, out, ticks, topology, now, fs, budget, thermal, read_line, received>>
    /\ log' = <<>>

ApiStopRecording ==
    /\ pc = "api"
    /\ \E time \in ClockValues : tc' = stop_recording(tc, time)
    /\ ret' = Returned("none", <<>>, Ok(NaN))
    /\ UNCHANGED <<pc, cfg, sock, peer, out, ticks, topology, now, fs, budget, thermal, read_line, received>>
    /\ log' = <<>>

ApiAddEnergy ==
    /\ pc = "api"
    /\ Appended(tc, DOMAIN tc.vms) < MaxCalls
    /\ \E vm_name \in ApiNames, uj \in ApiEnergies :
          /\ tc' = add_energy(tc, vm_name, uj)
          /\ ret' = Returned("none", <<>>, Ok(NaN))
    /\ UNCHANGED <<pc, cfg, sock, peer, out, ticks, topology, now, fs, budget, thermal, read_line, received>>
    /\ log' = <<>>

ApiAddTemp ==
    /\ pc = "api"
    /\ Appended(tc, DOMAIN tc.vms) < MaxCalls
    /\ \E temperature \in ApiTemps : tc' = add_temp_measurement(tc, temperature)
    /\ ret' = Returned("none", <<>>, Ok(NaN))
    /\ UNCHANGED <<pc, cfg, sock, peer, out, ticks, topology, now, fs, budget, thermal, read_line, received>>
    /\ log' = <<>>

ApiGetAvgTemp ==
    /\ pc = "api"
    /\ ret' = Returned("get_avg_temp", <<>>, Ok(get_avg_temp(tc)))
    /\ UNCHANGED <<pc, cfg, sock, peer, out, tc, ticks, topology, now, fs, budget, thermal, read_line, received, log>>

ApiGetTestDuration ==
    /\ pc = "api"
    /\ LET r == get_test_duration(tc)
       IN  /\ ret' = Returned("get_test_duration", <<>>,
                              IF r.ok THEN Ok(AsF64(r.v)) ELSE Panic)
           /\ pc' = IF r.ok THEN "api" ELSE "panicked"
    /\ UNCHANGED <<cfg, sock, peer, out, tc, ticks, topology, now, fs, budget, thermal, read_line, received, log>>

ApiGetWatt ==
    /\ pc = "api"
    /\ \E vm_name \in ApiNames :
          LET r == get_watt_consumed_by_vm(tc, vm_name)
          IN  /\ ret' = Returned("get_watt_consumed_by_vm", vm_name, r)
              /\ pc' = IF r.ok THEN "api" ELSE "panicked"
    /\ UNCHANGED <<cfg, sock, peer, out, tc, ticks, topology, now, fs, budget, thermal, read_line, received, log>>

ApiStoreTestData ==
    /\ pc = "api"
    /\ \E order \in Orders(DOMAIN tc.vms), good \in 0..(2 * Cardinality(DOMAIN tc.vms)) :
          LET r == store_test_data(tc, fs, order, good)
              done == r.ok /\ good = 2 * Cardinality(DOMAIN tc.vms)
          IN  /\ fs' = r.v
              /\ ret' = Returned("store_test_data", <<>>,
                                 IF done THEN Ok(NaN) ELSE Panic)
              /\ pc' = IF done THEN "api" ELSE "panicked"
              /\ log' = IF done /\ Len(log) < 2 THEN Append(log, "persist") ELSE log
    /\ UNCHANGED <<cfg, sock, peer, out, tc, ticks, topology, now, budget, thermal, read_line, received>>

AccNext ==
    \/ ApiStartRecording
    \/ ApiStopRecording
    \/ ApiAddEnergy
    \/ ApiAddTemp
    \/ ApiGetAvgTemp
    \/ ApiGetTestDuration
    \/ ApiGetWatt
    \/ ApiStoreTestData

AccSpec == AccInit /\ [][AccNext]_vars

(***************************************************************************)
(* get_vm_name_from_cmdline applied to a command line: ret holds the       *)
(* command line and, once the function has returned, the name.             *)
(***************************************************************************)
NameTokens ==
    { DashName, QemuBin, CmdMyvm[3], CmdVmB[3],
      <<"g", "u", "e", "s", "t", "=">>,
      <<"g", "u", "e", "s", "t", "=", "a", "=", "b">>,
      <<"x", "g", "u", "e", "s", "t", "=", "c">> }

Cmdlines == UNION {[1..n -> NameTokens] : n \in 0..MaxTokens}

NameInit ==
    /\ pc = "cmdline"
    /\ cfg = 1
    /\ sock = <<>>
    /\ peer = [sent |-> 0, closed |-> FALSE]
    /\ out = <<>>
    /\ tc = NoTestCase
    /\ ticks = 0
    /\ topology = [uj |-> None(<<>>), stat |-> None(0), procs |-> <<>>]
    /\ now = 0
    /\ fs = EmptyMap
    /\ budget = 0
    /\ thermal = None(<<>>)
    /\ \E cmdline \in Cmdlines :
          ret = [op |-> "none", arg |-> cmdline, ok |-> TRUE, v |-> <<>>]
    /\ read_line = ""
    /\ received = 0
    /\ log = <<>>

ResolveName ==
    /\ pc = "cmdline"
    /\ ret' = [op |-> "get_vm_name_from_cmdline", arg |-> ret.arg, ok |-> TRUE,
               v |-> get_vm_name_from_cmdline(ret.arg)]
    /\ pc' = "resolved"
    /\ UNCHANGED <<cfg, sock, peer, out, tc, ticks, topology, now, fs, budget, thermal, read_line, received, log>>

NameNext == ResolveName

NameSpec == NameInit /\ [][NameNext]_vars

(***************************************************************************)
(* Properties of the control protocol driver                               *)
(***************************************************************************)
IsPrefix(a, b) == Len(a) <= Len(b) /\ SubSeq(b, 1, Len(a)) = a

Count(seq, x) == Cardinality({i \in 1..Len(seq) : seq[i] = x})

Commands == {"startTestReq\n", "finished recording\n"}

\* the process has not panicked
ProcessRunning == pc # "panicked"

\* what the driver does for one startTestReq
WindowEvents ==
    <<"ack", "start_recording">> \o [i \in 1..12 |-> "tick"]
        \o <<"stop_recording", "persist", "fin">>

\* C1: after a startTestReq line is read, what the driver has done for it is
\* always a prefix of: ack, start_recording, the ticks of the window,
\* stop_recording, persist, fin; the driver waits for the next line only
\* when all of it is done; the stream holds one more ack than fin from the
\* ack to the fin, and the TestCase exists from start_recording to persist.
C1_WindowOrder ==
    (received > 0 /\ read_line = "startTestReq\n") =>
        /\ IsPrefix(log, WindowEvents)
        /\ pc = "read" => log = WindowEvents
        /\ Count(out, "ack\n") - Count(out, "fin\n")
              = Count(log, "ack") - Count(log, "fin")
        /\ (ProcessRunning /\ tc # NoTestCase) =>
              /\ Count(log, "start_recording") = 1
              /\ Count(log, "persist") = 0
              /\ Count(log, "tick") = ticks

C1_WindowDone ==
    /\ pc = "read"
    /\ read_line = "startTestReq\n"
    /\ log = WindowEvents
    /\ out = <<"ack\n", "fin\n">>

\* C2: a step that reads `finished recording` ends the loop of the
\* configuration: the driver accepts the connection of the next one, or,
\* after the last one, is closed; it writes nothing and records nothing for
\* the line; once closed, it reads no line, writes nothing and starts no
\* window.
C2_FinishedRecording ==
    [][/\ (received' = received + 1 /\ read_line' = "finished recording\n") =>
            /\ cfg' = cfg + 1
            /\ pc' = IF cfg < Len(Configurations) THEN "accept" ELSE "closed"
            /\ out' = out
            /\ tc' = NoTestCase
            /\ log' = <<>>
            /\ cfg >= Len(Configurations) => ~ConnectionOpen'
       /\ pc = "closed" =>
            /\ pc' = "closed"
            /\ received' = received
            /\ out' = out
            /\ tc' = tc]_vars

C2_Closed ==
    /\ pc = "closed"
    /\ read_line = "finished recording\n"
    /\ out = <<"ack\n", "fin\n">>

\* C3: a step that reads any line other than the two commands, the empty line
\* at the end of the stream included, ends the session by a panic: nothing
\* is written for the line, no window is started for it, and nothing happens
\* after the panic.
C3_UnknownLineAborts ==
    [][/\ (received' = received + 1 /\ read_line' \notin Commands) =>
            /\ pc' = "panicked"
            /\ out' = out
            /\ tc' = NoTestCase
            /\ log' = <<>>
       /\ pc = "panicked" =>
            /\ pc' = "panicked"
            /\ received' = received
            /\ out' = out
            /\ tc' = tc]_vars

C3_EndOfStreamAborts ==
    /\ pc = "panicked"
    /\ read_line = ""
    /\ received = 2
    /\ out = <<"ack\n", "fin\n">>

\* the session has seen a line that is no command
ProtocolViolation == received > 0 /\ read_line \notin Commands

\* store_test_data has panicked
PersistenceFailure ==
    /\ pc = "panicked"
    /\ log # <<>>
    /\ log[Len(log)] = "stop_recording"

\* C4: after a protocol violation or a persistence failure the agent process
\* is still running.
C4_ProcessSurvives ==
    (ProtocolViolation \/ PersistenceFailure) => ProcessRunning

(***************************************************************************)
(* Properties of a sampling tick                                           *)
(***************************************************************************)
Series(t, n) == IF n \in DOMAIN t.vms THEN t.vms[n] ELSE <<>>

\* what a step has appended to the series of guest n
AppendedTo(t, t2, n) ==
    SubSeq(Series(t2, n), Len(Series(t, n)) + 1, Len(Series(t2, n)))

RECURSIVE AppendedSum(_, _, _)
AppendedSum(t, t2, names) ==
    IF names = {} THEN AsF64(0)
    ELSE LET n == CHOOSE x \in names : TRUE
         IN  FAdd(SumF(AppendedTo(t, t2, n)), AppendedSum(t, t2, names \ {n}))

\* a <= b on f64
FLe(a, b) ==
    /\ a.k # "nan"
    /\ b.k # "nan"
    /\ \/ b.k = "inf"
       \/ a.k = "fin" /\ b.k = "fin" /\ a.n * b.d <= b.n * a.d

\* a step that is a completed tick
TickDone == ticks' = ticks + 1

\* C5: in every tick that appends an energy share, the shares appended in the
\* tick sum to at most the host energy delta of the tick (stated for the
\* ticks whose host time delta is not zero; C8 is about the others).
C5_SharesWithinHostEnergy ==
    [][(TickDone /\ tc'.vms # tc.vms /\ topology'.stat # Some(0)) =>
          FLe(AppendedSum(tc, tc', DOMAIN tc'.vms),
              AsF64(DecimalValue(topology'.uj.v)))]_vars

\* the guest identities of the processes a topology lists
GuestsOf(topo) ==
    {get_vm_name_from_cmdline(topo.procs[i][1].cmdline) : i \in 1..Len(topo.procs)}

\* pdiff * uj / tdiff for the attributed processes of guest n, in order
RECURSIVE ProportionalShares(_, _, _, _)
ProportionalShares(qemu_processes, n, tdiff, uj) ==
    IF qemu_processes = <<>> THEN <<>>
    ELSE LET qp == Head(qemu_processes)
             rest == ProportionalShares(Tail(qemu_processes), n, tdiff, uj)
         IN  IF long_enough(qp) /\ get_vm_name_from_cmdline(qp[1].cmdline) = n
             THEN <<Fin((qp[1].jiffies - qp[2].jiffies) * uj, tdiff)>> \o rest
             ELSE rest

\* C6: in a tick with both deltas present and a host time delta that is not
\* zero, what is appended for each attributed process is
\* (current_jiffies - previous_jiffies) * host_energy_delta / host_time_delta.
C6_ProportionalShare ==
    [][(TickDone /\ topology'.uj.some /\ topology'.stat.some
            /\ topology'.stat.v # 0) =>
          \A n \in GuestsOf(topology') \cup DOMAIN tc'.vms :
              AppendedTo(tc, tc', n) =
                  ProportionalShares(filter_qemu_vm_processes(topology'.procs),
                                     n, topology'.stat.v,
                                     DecimalValue(topology'.uj.v))]_vars

Myvm == <<"m", "y", "v", "m">>

VmB == <<"v", "m", "B">>

\* host energy 100000, host time 100, guest deltas 30 and 70
C6_Example ==
    /\ pc = "tick"
    /\ topology.uj = Some(<<"1", "0", "0", "0", "0", "0">>)
    /\ topology.stat = Some(100)
    /\ topology.procs =
          <<History(CmdMyvm, 3, 30, TRUE), History(CmdVmB, 4, 70, TRUE)>>
    /\ DOMAIN tc.vms = {Myvm, VmB}
    /\ tc.vms[Myvm] = <<AsF64(30000)>>
    /\ tc.vms[VmB] = <<AsF64(70000)>>

\* C7: after k ticks of a window the temperature series has length k.
C7_OneTemperaturePerTick ==
    (ProcessRunning /\ tc # NoTestCase) => Len(tc.temps) = ticks

AllFinite(t) ==
    \A n \in DOMAIN t.vms : \A i \in 1..Len(t.vms[n]) : IsFinite(t.vms[n][i])

WattFilesDecimal(files) ==
    \A f \in DOMAIN files : f[2] = "consumed_watt" => files[f].text = "decimal"

\* C8: a tick whose host time delta is zero appends no energy share, and no
\* NaN or infinity is ever in an energy series or in a consumed_watt file.
C8_ZeroHostTimeSkipped ==
    [][/\ (TickDone /\ topology'.stat = Some(0)) => tc'.vms = tc.vms
       /\ tc' # NoTestCase => AllFinite(tc')
       /\ WattFilesDecimal(fs')]_vars

(***************************************************************************)
(* Properties of the TestCase methods                                      *)
(***************************************************************************)
\* the exact sum of a series of finite values, as <<numerator, denominator>>
RECURSIVE RatSum(_)
RatSum(s) ==
    IF s = <<>> THEN <<0, 1>>
    ELSE LET r == RatSum(Tail(s))
         IN  <<Head(s).n * r[2] + r[1] * Head(s).d, Head(s).d * r[2]>>

\* n / d = (sum of s) / count
IsQuotient(n, d, s, count) == n * count * RatSum(s)[2] = d * RatSum(s)[1]

\* C9: get_avg_temp returns the mean of a series that is not empty and an
\* error on an empty one, and no avg_temp file holds an undefined value.
C9_AverageTemperature ==
    /\ ret.op = "get_avg_temp" =>
          IF tc.temps = <<>> THEN ~ret.ok
          ELSE /\ ret.ok
               /\ IsFinite(ret.v)
               /\ IsQuotient(ret.v.n, ret.v.d, tc.temps, Len(tc.temps))
    /\ \A f \in DOMAIN fs : f[2] = "avg_temp" => fs[f].text = "decimal"

\* the seconds from start_recording to stop_recording
Seconds(t) == t.end_recording - t.start_recording

\* C10: on a TestCase whose recording has stopped after it started,
\* get_watt_consumed_by_vm of a guest that has a series is the sum of the
\* series divided by the seconds of the recording, and store_test_data
\* leaves the text of that value in the guest's consumed_watt file.
C10_AveragePower ==
    /\ (ret.op = "get_watt_consumed_by_vm" /\ ret.ok /\ Seconds(tc) > 0) =>
          /\ IsFinite(ret.v)
          /\ IsQuotient(ret.v.n, ret.v.d, tc.vms[ret.arg], Seconds(tc))
    /\ (ret.op = "store_test_data" /\ ret.ok /\ Seconds(tc) > 0) =>
          \A n \in DOMAIN tc.vms :
              LET f == <<<<tc.store_base_path, n>>, "consumed_watt">>
              IN  /\ f \in DOMAIN fs
                  /\ fs[f].text = "decimal"
                  /\ IsQuotient(fs[f].n, fs[f].d, tc.vms[n], Seconds(tc))

C10_Stored ==
    /\ ret.op = "store_test_data"
    /\ ret.ok
    /\ Seconds(tc) = 10
    /\ DOMAIN tc.vms = ApiNames
    /\ Len(tc.vms[<<>>]) = 2
    /\ fs[<<<<tc.store_base_path, <<>> >>, "consumed_watt">>] = to_string(AsF64(10000))

\* C11: a call of store_test_data on a TestCase that has been stored and not
\* changed since leaves every file as it is: no file is added or removed and
\* the content of every consumed_watt and avg_temp file stays what the first
\* call wrote, whether the second call returns or fails part of the way.
C11_PersistIdempotent ==
    [][(log # <<>> /\ log[Len(log)] = "persist" /\ pc = "api"
            /\ ret'.op = "store_test_data") =>
          /\ tc' = tc
          /\ fs' = fs]_vars

C11_PersistedTwice ==
    /\ pc = "api"
    /\ log = <<"persist", "persist">>
    /\ DOMAIN tc.vms = ApiNames
    /\ Seconds(tc) = 10
    /\ \A n \in DOMAIN tc.vms :
          /\ fs[<<<<tc.store_base_path, n>>, "consumed_watt">>]
                = to_string(get_watt_consumed_by_vm(tc, n).v)
          /\ fs[<<<<tc.store_base_path, n>>, "avg_temp">>]
                = to_string(get_avg_temp(tc))

(***************************************************************************)
(* Properties of the guest identity                                        *)
(***************************************************************************)
\* the tokens of a command line that start with guest=
GuestTokens(cmdline) ==
    {i \in 1..Len(cmdline) : starts_with(cmdline[i], GuestEq)}

\* the text a token holds after guest=, up to its first comma
NameOf(token) == first_piece(SubSeq(token, Len(GuestEq) + 1, Len(token)), ",")

FirstGuestToken(cmdline) ==
    cmdline[CHOOSE i \in GuestTokens(cmdline) :
                \A j \in GuestTokens(cmdline) : i <= j]

\* C12: the identity of a command line is the text after guest= up to the
\* first comma of the first token that starts with guest=, and the empty
\* string when no token does.
C12_GuestIdentity ==
    ret.op = "get_vm_name_from_cmdline" =>
        ret.v = IF GuestTokens(ret.arg) = {} THEN <<>>
                ELSE NameOf(FirstGuestToken(ret.arg))

(***************************************************************************)
(* Properties of the TestCase methods: the error outcomes                  *)
(***************************************************************************)
\* C13: get_test_duration returns end_recording - start_recording when the
\* recording ended at or after its start; when end_recording is before
\* start_recording (stop_recording was not called after start_recording, or
\* the clock read less) the call reports an error and the process keeps
\* running.
C13_Duration ==
    ret.op = "get_test_duration" =>
        /\ ProcessRunning
        /\ IF tc.end_recording >= tc.start_recording
           THEN ret.ok /\ ret.v = AsF64(tc.end_recording - tc.start_recording)
           ELSE ~ret.ok

\* C14: get_watt_consumed_by_vm of a name that has no series reports an
\* error: the process keeps running and the TestCase is as it was.
C14_UnknownGuest ==
    [][(pc = "api" /\ ret'.op = "get_watt_consumed_by_vm"
            /\ ret'.arg \notin DOMAIN tc.vms) =>
          /\ ~ret'.ok
          /\ ProcessRunning'
          /\ tc' = tc]_vars

(***************************************************************************)
(* Properties of a sampling tick: which processes are attributed           *)
(***************************************************************************)
\* the qemu processes of a topology that resolve to guest n and hold at
\* least `samples` records
Attributable(topo, n, samples) ==
    LET qemu_processes == filter_qemu_vm_processes(topo.procs)
    IN  {i \in 1..Len(qemu_processes) :
            /\ Len(qemu_processes[i]) >= samples
            /\ get_vm_name_from_cmdline(qemu_processes[i][1].cmdline) = n}

\* C15: in a tick with both deltas present (the energy delta a decimal
\* number), one value is appended for every qemu process whose history holds
\* at least two records, and none for the others.
C15_TwoSamplesAttributed ==
    [][(TickDone /\ topology'.uj.some /\ parse_f64(topology'.uj.v).ok
            /\ topology'.stat.some) =>
          \A n \in GuestsOf(topology') \cup DOMAIN tc'.vms :
              Len(AppendedTo(tc, tc', n))
                  = Cardinality(Attributable(topology', n, 2))]_vars

\* C16: after k ticks of a window every energy series has at most k values.
C16_OneValuePerGuestPerTick ==
    (ProcessRunning /\ tc # NoTestCase) =>
        \A n \in DOMAIN tc.vms : Len(tc.vms[n]) <= ticks

(***************************************************************************)
(* Properties of the TestCase of a window                                  *)
(***************************************************************************)
\* a step inside a window: the TestCase exists before and after it
InWindow == tc # NoTestCase /\ tc' # NoTestCase

\* every series of t is a prefix of the series of t2
OnlyAppended(t, t2) ==
    /\ IsPrefix(t.temps, t2.temps)
    /\ \A n \in DOMAIN t.vms :
          n \in DOMAIN t2.vms /\ IsPrefix(t.vms[n], t2.vms[n])

StoredFrom(files, t, n) ==
    /\ <<<<t.store_base_path, n>>, "consumed_watt">> \in DOMAIN files
    /\ <<<<t.store_base_path, n>>, "avg_temp">> \in DOMAIN files
    /\ files[<<<<t.store_base_path, n>>, "consumed_watt">>]
          = to_string(get_watt_consumed_by_vm(t, n).v)
    /\ files[<<<<t.store_base_path, n>>, "avg_temp">>]
          = to_string(get_avg_temp(t))

\* C18: no TestCase exists when a startTestReq is read; the window of every
\* startTestReq, the second one for a configuration included, begins with
\* a TestCase whose series are empty and whose end_recording is not set; a
\* TestCase never holds more temperature samples than its window has had
\* ticks; and what a window stores for a guest are the averages of the
\* series of that TestCase, which is gone afterwards.
C18_FreshTestCasePerWindow ==
    [][/\ (received' = received + 1 /\ read_line' = "startTestReq\n") =>
            tc' = NoTestCase
       /\ (tc = NoTestCase /\ tc' # NoTestCase) =>
            /\ pc = "start"
            /\ read_line = "startTestReq\n"
            /\ log = <<"ack">>
            /\ ticks' = 0
            /\ tc'.temps = <<>>
            /\ tc'.vms = EmptyMap
            /\ tc'.start_recording = now
            /\ tc'.end_recording = 0
       /\ tc' # NoTestCase => Len(tc'.temps) <= ticks'
       /\ (pc = "store" /\ pc' = "fin") =>
            /\ tc' = NoTestCase
            /\ \A n \in DOMAIN tc.vms : StoredFrom(fs', tc, n)]_vars

C18_SecondWindowFresh ==
    /\ pc = "tick"
    /\ received = 2
    /\ read_line = "startTestReq\n"
    /\ out = <<"ack\n", "fin\n", "ack\n">>
    /\ fs # EmptyMap
    /\ ticks = 0
    /\ tc.temps = <<>>
    /\ tc.vms = EmptyMap
    /\ tc.start_recording = 11

(***************************************************************************)
(* Properties of a sampling tick: failures                                 *)
(***************************************************************************)
\* C19: a tick never ends the window: whatever the energy delta reads and
\* whether or not the command line of a matched process can still be read,
\* the step of a tick is a completed tick and the process keeps running,
\* so that the window goes on to its remaining ticks, to store_test_data
\* and to fin.
C19_TickFailureDegrades ==
    [][pc = "tick" => (TickDone /\ ProcessRunning')]_vars

\* the readings of the zones of a thermal tree that are no cooling devices
\* and can be read
RECURSIVE ZoneReadings(_)
ZoneReadings(sensors) ==
    IF sensors = <<>> THEN <<>>
    ELSE IF Head(sensors).cooling \/ ~Head(sensors).readable
         THEN ZoneReadings(Tail(sensors))
    ELSE <<DecimalValue(SubSeq(Head(sensors).text, 1,
                               Len(Head(sensors).text) - 1))>>
            \o ZoneReadings(Tail(sensors))

RECURSIVE IntSum(_)
IntSum(s) == IF s = <<>> THEN 0 ELSE Head(s) + IntSum(Tail(s))

\* C20: the temperature a tick appends is a number: zero when
\* /sys/class/thermal cannot be listed, the mean of the readings of the
\* zones read when there are any, and never NaN or infinity.
C20_TemperatureDefined ==
    [][(TickDone /\ Len(tc'.temps) > Len(tc.temps)) =>
          LET sample == tc'.temps[Len(tc'.temps)]
          IN  /\ IsFinite(sample)
              /\ ~thermal.some => sample = AsF64(0)
              /\ (thermal.some /\ ZoneReadings(thermal.v) # <<>>) =>
                    sample = Fin(IntSum(ZoneReadings(thermal.v)),
                                 Len(ZoneReadings(thermal.v)))]_vars

(***************************************************************************)
(* Properties of the lines on the connection                               *)
(***************************************************************************)
\* C21: a read takes the oldest line the peer has sent and leaves the lines
\* behind it for the reads that follow, so that the driver, when it waits
\* for a line with nothing left to read, has read every line that was sent.
C21_EveryLineProcessed ==
    [][/\ (received' = received + 1 /\ sock # <<>>) =>
            /\ read_line' = Head(sock)
            /\ sock' = Tail(sock)
       /\ (pc' = "read" /\ sock' = <<>>) => received' = peer'.sent]_vars

(***************************************************************************)
(* Properties of the length of a window                                    *)
(***************************************************************************)
\* C22: a window is left for stop_recording after exactly 12 ticks, 11 of
\* them followed by a sleep of one second, whatever the ticks have read;
\* the driver leaves a window only by writing fin after all of it, or by a
\* panic; and the driver does not stay in a window forever: from every
\* state of a window it comes to be outside of it.
C22_FixedTickCount ==
    /\ [](pc = "tick" => ticks < 12)
    /\ [](pc \in {"stop", "store"} =>
            /\ ticks = 12
            /\ Count(log, "tick") = 12
            /\ now = tc.start_recording + 11)
    /\ [][(pc \in WindowPcs /\ pc' \notin WindowPcs) =>
            \/ pc' = "panicked"
            \/ pc = "fin" /\ pc' = "read" /\ log' = WindowEvents]_vars
    /\ []<>(pc \notin WindowPcs)

C22_TwelveTicksThenFin ==
    /\ pc = "fin"
    /\ ticks = 12
    /\ Count(log, "tick") = 12
    /\ now = 11
    /\ DOMAIN tc = {"none"}
    /\ fs # EmptyMap

(***************************************************************************)
(* Properties of the temperature series next to the energy series          *)
(***************************************************************************)
\* C23: in a window, a tick that appends to an energy series appends a
\* temperature as well, so that a TestCase with an energy series has a
\* temperature series that is not empty, and so it is when store_test_data
\* takes the average for the guests it writes.
C23_TemperatureWithEnergy ==
    /\ []((ProcessRunning /\ tc # NoTestCase /\ DOMAIN tc.vms # {}) =>
            tc.temps # <<>>)
    /\ [][(TickDone /\ tc'.vms # tc.vms) =>
            Len(tc'.temps) = Len(tc.temps) + 1]_vars
    /\ [][(pc = "store" /\ fs' # fs) => tc.temps # <<>>]_vars

C23_StoredWithTemperature ==
    /\ pc = "fin"
    /\ received = 1
    /\ topology.uj.some
    /\ \E f \in DOMAIN fs : f[2] = "avg_temp"
    /\ \E f \in DOMAIN fs : f[2] = "consumed_watt"

====
